---- MODULE Spec2Model ----
(***************************************************************************)
(* prestomanifesto: crawl a registry, fold the digests of the              *)
(* architecture images and of the top-level manifest lists into a signed   *)
(* balance per repo:tag, and print the docker manifest commands for every  *)
(* repo:tag whose balance is not zero.                                     *)
(*                                                                         *)
(* A string the program splits (a repository path, a flag value) is a      *)
(* sequence of tokens, the separator being a token of its own; every other *)
(* string is a TLA+ string.  log.Printf writes to the diagnostic stream,   *)
(* which no step of the program reads; only standard output is state.      *)
(***************************************************************************)
EXTENDS Integers, Sequences, FiniteSets, TLC

\* ------------------------------------------------------------ bounds
\* the longest tag list a repository carries
MaxTags == 2
\* the longest manifest list a top-level image carries
MaxManifests == 2

\* ------------------------------------------------------------ strings
Nil == "<nil>"

RECURSIVE Str(_)
Str(toks) ==
    IF toks = <<>> THEN "" ELSE Head(toks) \o Str(Tail(toks))

\* index of the first token equal to sep, 0 when there is none
RECURSIVE IndexFrom(_, _, _)
IndexFrom(s, sep, i) ==
    IF i > Len(s) THEN 0
    ELSE IF s[i] = sep THEN i
    ELSE IndexFrom(s, sep, i + 1)

\* strings.Split: the pieces between the separators, at least one piece
RECURSIVE Split(_, _)
Split(s, sep) ==
    LET i == IndexFrom(s, sep, 1)
    IN  IF i = 0 THEN << Str(s) >>
        ELSE << Str(SubSeq(s, 1, i - 1)) >> \o Split(SubSeq(s, i + 1, Len(s)), sep)

\* strings.Join
RECURSIVE Join(_, _)
Join(a, sep) ==
    IF a = <<>> THEN ""
    ELSE IF Len(a) = 1 THEN a[1]
    ELSE a[1] \o sep \o Join(Tail(a), sep)

\* a[1:]
Rest(a) == SubSeq(a, 2, Len(a))

Elems(f) == { f[x] : x \in DOMAIN f }

\* ------------------------------------------------------------ inputs
Domain == "registry.io"

RepoTop == << "rck" >>
RepoAmd == << "amd64", "/", "rck" >>
RepoS390 == << "s390x", "/", "rck" >>

\* the catalogs a registry may answer with
Catalogs ==
    { <<>>, << RepoTop >>, << RepoAmd >>, << RepoS390 >>,
      << RepoTop, RepoAmd >>, << RepoTop, RepoS390 >>, << RepoAmd, RepoS390 >>,
      << RepoTop, RepoAmd, RepoS390 >> }

AllTags == << "latest", "v1", "v2", "v3" >>
TagLists == { SubSeq(AllTags, 1, n) : n \in 1..MaxTags }

Digests == { "sha256:AAA", "sha256:BBB" }

RECURSIVE SeqsUpTo(_, _)
SeqsUpTo(S, n) ==
    IF n = 0 THEN { <<>> }
    ELSE LET shorter == SeqsUpTo(S, n - 1)
         IN  shorter \cup { Append(q, d) : q \in shorter, d \in S }

ManifestLists == SeqsUpTo(Digests, MaxManifests)

\* the values of the flags -all and -a
FlagAllDefault == << "amd64", ",", "s390x", ",", "ppc64le", ",", "arm64" >>
FlagADefault == << "amd64", ",", "s390x" >>
FlagConfigs ==
    { << FlagAllDefault, FlagADefault >>,
      << FlagAllDefault, << "amd64" >> >>,
      << << "amd64" >>, FlagADefault >>,
      << FlagAllDefault, <<>> >> }

\* a registry: its domain, and its content: the tags of a repository (the
\* s390x repository has the first tag only), the digest of its images and the
\* manifest list the client returns for them (the same under each tag)
Registries ==
    { [ Domain |-> Domain, catalog |-> c,
        tags |-> [ r \in Elems(c) |-> IF r = RepoS390 THEN SubSeq(t, 1, 1) ELSE t ],
        digest |-> [ r \in Elems(c) |-> IF r = RepoS390 THEN ds ELSE "sha256:AAA" ],
        manifests |-> [ r \in Elems(c) |-> IF r = RepoTop THEN ml ELSE <<>> ] ] :
      c \in Catalogs, t \in TagLists, ds \in Digests, ml \in ManifestLists }

\* ------------------------------------------------------------ state
VARIABLES
    reg,        \* the registry behind the client
    faulty,     \* whether its calls can fail
    flags,      \* << -all, -a >>
    pc,         \* where the main goroutine is
    exitCode,   \* -1 while running
    called,     \* the functions entered so far
    calls,      \* the client calls issued so far
    stdout,     \* what was written to standard output, in order
    allArchs, validArch,
    \* getAllRepoTags
    repos, goIdx, tagTasks, mTags, gTags, repoTags,
    \* getUpdates
    todo, repo, rSplit, arch, ok, isArch, tags, tagIdx, tasks, m, g, digests,
    updates, err,
    incs,       \* per RepoTag, the increments made to its stored counts so far
    firstFail,  \* the error of the first client call that failed
    runNo, prev \* a second run of getUpdates: its number, and the balance map
                \* and the set of records of the first run

vars ==
    << reg, faulty, flags, pc, exitCode, called, calls, stdout, allArchs, validArch,
       repos, goIdx, tagTasks, mTags, gTags, repoTags,
       todo, repo, rSplit, arch, ok, isArch, tags, tagIdx, tasks, m, g, digests,
       updates, err, incs, firstFail, runNo, prev >>

invVars == << repos, goIdx, tagTasks, mTags, gTags, repoTags >>
loopVars == << repo, rSplit, arch, ok, isArch, tags, tagIdx >>
updVars == << todo, loopVars, tasks, m, g, digests, incs >>
envVars == << reg, faulty, flags, runNo, prev >>

\* the outcomes of a client call: it fails or not
Outcomes == IF faulty THEN BOOLEAN ELSE { FALSE }

Start ==
    /\ reg \in Registries
    /\ flags \in FlagConfigs
    /\ pc = "main"
    /\ exitCode = -1
    /\ called = {}
    /\ calls = {}
    /\ stdout = <<>>
    /\ allArchs = <<>>
    /\ validArch = <<>>
    /\ repos = <<>>
    /\ goIdx = 0
    /\ tagTasks = <<>>
    /\ mTags = 0
    /\ gTags = Nil
    /\ repoTags = <<>>
    /\ todo = {}
    /\ repo = <<>>
    /\ rSplit = <<>>
    /\ arch = ""
    /\ ok = FALSE
    /\ isArch = FALSE
    /\ tags = <<>>
    /\ tagIdx = 0
    /\ tasks = <<>>
    /\ m = 0
    /\ g = Nil
    /\ digests = <<>>
    /\ incs = <<>>
    /\ updates = <<>>
    /\ err = Nil
    /\ firstFail = Nil
    /\ runNo = 1
    /\ prev = [ digests |-> <<>>, updates |-> {} ]

Init == Start /\ faulty = TRUE

\* ------------------------------------------------------------ errgroup
\* a group that keeps the error of the task that returned last
GoErrLast(cur, e) == e

\* g.Go keeps the first error a task returns; g.Wait returns it
GoErr(cur, e) == IF cur = Nil THEN e ELSE cur

AllDone(ts) == \A i \in DOMAIN ts : ts[i].pc = "done"

\* log.Fatal, and the error run returned
Fatal(e) ==
    /\ pc' = "exit"
    /\ exitCode' = 1
    /\ err' = e

\* ------------------------------------------------------------ main
\* main, up to the call of getRegistry
Main ==
    /\ pc = "main"
    /\ LET allArchsSplit == Split(flags[1], ",")
           archsSplit == Split(flags[2], ",")
       IN  IF Len(allArchsSplit) = 0
           THEN Fatal("list of '-all' architectures not allowed to be empty")
                /\ UNCHANGED << allArchs, validArch >>
           ELSE IF Len(archsSplit) = 0
           THEN Fatal("list of '-a' architectures not allowed to be empty")
                /\ UNCHANGED << allArchs, validArch >>
           ELSE /\ pc' = "getRegistry"
                /\ allArchs' = allArchsSplit
                /\ validArch' = archsSplit
                /\ UNCHANGED << exitCode, err >>
    /\ called' = called \cup { "main" }
    /\ UNCHANGED << firstFail, envVars, calls, stdout, invVars, updVars, updates >>

\* getRegistry and main's check of its error; then run calls getAllRepoTags
GetRegistry ==
    /\ pc = "getRegistry"
    /\ \E fails \in BOOLEAN :
         IF fails
         THEN Fatal("getRegistry: " \o reg.Domain) /\ called' = called \cup { "getRegistry" }
         ELSE /\ pc' = "Catalog"
              /\ called' = called \cup { "getRegistry", "run", "getAllRepoTags" }
              /\ UNCHANGED << exitCode, err >>
    /\ UNCHANGED << firstFail, envVars, calls, stdout, allArchs, validArch, invVars, updVars,
                    updates >>

\* ------------------------------------------------------------ getAllRepoTags
Catalog ==
    /\ pc = "Catalog"
    /\ calls' = calls \cup { << "Catalog", "", "" >> }
    /\ \E outcome \in { "ok" } \cup (IF faulty THEN { "syntax", "io" } ELSE {}) :
         IF outcome = "ok"
         THEN /\ repos' = reg.catalog
              /\ goIdx' = 1
              /\ pc' = "tagsGo"
              /\ UNCHANGED << exitCode, err >>
         ELSE /\ Fatal(IF outcome = "syntax"
                       THEN "domain " \o reg.Domain \o " is not a valid registry"
                       ELSE "Catalog: i/o")
              /\ UNCHANGED << repos, goIdx >>
    /\ firstFail' = IF pc' = "exit" THEN err' ELSE firstFail
    /\ UNCHANGED << envVars, called, stdout, allArchs, validArch,
                    tagTasks, mTags, gTags, repoTags, updVars, updates >>

\* g.Go for the next repository of the catalog
TagsGo ==
    /\ pc = "tagsGo"
    /\ goIdx <= Len(repos)
    /\ tagTasks' = Append(tagTasks, [ repo |-> repos[goIdx], pc |-> "Tags", tags |-> <<>> ])
    /\ goIdx' = goIdx + 1
    /\ UNCHANGED << firstFail, envVars, pc, exitCode, called, calls, stdout, allArchs, validArch,
                    repos, mTags, gTags, repoTags, updVars, updates, err >>

\* reg.Tags in task i; an error is printed and returned
TagsCall(i) ==
    /\ tagTasks[i].pc = "Tags"
    /\ calls' = calls \cup { << "Tags", Str(tagTasks[i].repo), "" >> }
    /\ \E fails \in Outcomes :
         IF fails
         THEN LET e == "Tags " \o Str(tagTasks[i].repo) \o ": i/o"
              IN  /\ stdout' = Append(stdout, "get tags of [" \o Str(tagTasks[i].repo)
                                               \o "] error: " \o e)
                  /\ gTags' = GoErr(gTags, e)
                  /\ firstFail' = IF firstFail = Nil THEN e ELSE firstFail
                  /\ tagTasks' = [ tagTasks EXCEPT ![i].pc = "done" ]
         ELSE /\ tagTasks' = [ tagTasks EXCEPT ![i].pc = "Lock",
                                               ![i].tags = reg.tags[tagTasks[i].repo] ]
              /\ UNCHANGED << stdout, gTags, firstFail >>
    /\ UNCHANGED << envVars, pc, exitCode, called, allArchs, validArch,
                    repos, goIdx, mTags, repoTags, updVars, updates, err >>

TagsLock(i) ==
    /\ tagTasks[i].pc = "Lock"
    /\ mTags = 0
    /\ mTags' = i
    /\ tagTasks' = [ tagTasks EXCEPT ![i].pc = "Store" ]
    /\ UNCHANGED << firstFail, envVars, pc, exitCode, called, calls, stdout, allArchs, validArch,
                    repos, goIdx, gTags, repoTags, updVars, updates, err >>

\* a store under the loop's own repo variable, which the loop has moved on
TagsStoreShared(i) ==
    /\ tagTasks[i].pc = "Store"
    /\ repoTags' = [ r \in DOMAIN repoTags \cup { repos[goIdx - 1] } |->
                       IF r = repos[goIdx - 1] THEN tagTasks[i].tags ELSE repoTags[r] ]
    /\ tagTasks' = [ tagTasks EXCEPT ![i].pc = "Unlock" ]
    /\ UNCHANGED << firstFail, envVars, pc, exitCode, called, calls, stdout, allArchs, validArch,
                    repos, goIdx, mTags, gTags, updVars, updates, err >>

\* repoTags[repo] = tags
TagsStore(i) ==
    /\ tagTasks[i].pc = "Store"
    /\ repoTags' = [ r \in DOMAIN repoTags \cup { tagTasks[i].repo } |->
                       IF r = tagTasks[i].repo THEN tagTasks[i].tags ELSE repoTags[r] ]
    /\ tagTasks' = [ tagTasks EXCEPT ![i].pc = "Unlock" ]
    /\ UNCHANGED << firstFail, envVars, pc, exitCode, called, calls, stdout, allArchs, validArch,
                    repos, goIdx, mTags, gTags, updVars, updates, err >>

TagsUnlock(i) ==
    /\ tagTasks[i].pc = "Unlock"
    /\ mTags' = 0
    /\ tagTasks' = [ tagTasks EXCEPT ![i].pc = "done" ]
    /\ UNCHANGED << firstFail, envVars, pc, exitCode, called, calls, stdout, allArchs, validArch,
                    repos, goIdx, gTags, repoTags, updVars, updates, err >>

\* a return from getAllRepoTags that does not join its tasks
TagsWaitNotJoined ==
    /\ pc = "tagsGo"
    /\ goIdx > Len(repos)
    /\ IF gTags # Nil
       THEN Fatal(gTags) /\ UNCHANGED << called, todo >>
       ELSE /\ pc' = "range"
            /\ called' = called \cup { "getUpdates" }
            /\ todo' = DOMAIN repoTags
            /\ UNCHANGED << exitCode, err >>
    /\ UNCHANGED << firstFail, envVars, calls, stdout, allArchs, validArch, invVars,
                    loopVars, tasks, m, g, digests, incs, updates >>

\* g.Wait of getAllRepoTags; run then returns the error or calls getUpdates
TagsWait ==
    /\ pc = "tagsGo"
    /\ goIdx > Len(repos)
    /\ AllDone(tagTasks)
    /\ IF gTags # Nil
       THEN Fatal(gTags) /\ UNCHANGED << called, todo >>
       ELSE /\ pc' = "range"
            /\ called' = called \cup { "getUpdates" }
            /\ todo' = DOMAIN repoTags
            /\ UNCHANGED << exitCode, err >>
    /\ UNCHANGED << firstFail, envVars, calls, stdout, allArchs, validArch, invVars,
                    loopVars, tasks, m, g, digests, incs, updates >>

\* ------------------------------------------------------------ processArch
\* the inner loop: is prefix one of validA[j..]
RECURSIVE ValidFrom(_, _, _)
ValidFrom(prefix, validA, j) ==
    IF j > Len(validA) THEN FALSE
    ELSE IF prefix = validA[j] THEN TRUE
    ELSE ValidFrom(prefix, validA, j + 1)

\* the outer loop from allA[i]
RECURSIVE ArchFrom(_, _, _, _)
ArchFrom(prefix, allA, validA, i) ==
    IF i > Len(allA) THEN << "", TRUE >>
    ELSE IF prefix = allA[i]
         THEN IF ValidFrom(prefix, validA, 1) THEN << prefix, TRUE >>
              ELSE << prefix, FALSE >>
    ELSE ArchFrom(prefix, allA, validA, i + 1)

\* a classifier without the "arch, but not interested" return
processArchNoSkip(prefix, allA, validA) ==
    IF ValidFrom(prefix, allA, 1) /\ ValidFrom(prefix, validA, 1)
    THEN << prefix, TRUE >>
    ELSE << "", TRUE >>

\* a classifier that looks the prefix up in validArch first
processArchValidFirst(prefix, allA, validA) ==
    IF ValidFrom(prefix, validA, 1) THEN << prefix, TRUE >>
    ELSE IF ValidFrom(prefix, allA, 1) THEN << prefix, FALSE >>
    ELSE << "", TRUE >>

processArch(prefix, allA, validA) == ArchFrom(prefix, allA, validA, 1)

\* ------------------------------------------------------------ getUpdates
\* a Go map: reading a missing key gives the zero value
MapGet(f, k) == IF k \in DOMAIN f THEN f[k] ELSE 0
MapPut(f, k, v) == [ x \in DOMAIN f \cup { k } |-> IF x = k THEN v ELSE f[x] ]
\* a counter update that forgets the count already stored
MapAddLost(f, k, d) == MapPut(f, k, d)

MapAdd(f, k, d) == MapPut(f, k, MapGet(f, k) + d)

\* one more increment recorded for a RepoTag
Counted(f, k) ==
    [ x \in DOMAIN f \cup { k } |-> IF x = k THEN MapGet(f, k) + 1 ELSE f[x] ]

\* a key that keeps the architecture segment
ArchRepoTagKeepsArch(tag) == Join(rSplit, "/") \o ":" \o tag

\* repoNoarch + ":" + tag, of the repository the loop is at
ArchRepoTag(tag) == Join(Rest(rSplit), "/") \o ":" \o tag
\* repo + ":" + tag
TopRepoTag(tag) == Str(repo) \o ":" \o tag
\* fmt.Sprintf("%s/%s:%s", reg.Domain, repo, tag)
Image(tag) == reg.Domain \o "/" \o Str(repo) \o ":" \o tag

\* a task that reads the loop's tag variable, which has reached the last tag
NewTaskSharedTag(tag) ==
    [ tag |-> tags[Len(tags)], pc |-> "fetch", dig |-> "", ml |-> <<>>, idx |-> 0,
      ee |-> [ ok |-> FALSE, digs |-> <<>>, archs |-> <<>> ],
      launched |-> [ repo |-> repo, rSplit |-> rSplit, arch |-> arch, isArch |-> isArch ] ]

\* the task g.Go starts for a tag; launched notes what the loop variables
\* held when it was started
NewTask(tag) ==
    [ tag |-> tag, pc |-> "fetch", dig |-> "", ml |-> <<>>, idx |-> 0,
      ee |-> [ ok |-> FALSE, digs |-> <<>>, archs |-> <<>> ],
      launched |-> [ repo |-> repo, rSplit |-> rSplit, arch |-> arch, isArch |-> isArch ] ]

\* the head of the loop over repoTags: the next repository in map order,
\* classified; a repository of an architecture left out is passed over
Range ==
    /\ pc = "range"
    /\ todo # {}
    /\ \E r \in todo :
         LET split == Split(r, "/")
             res == processArch(split[1], allArchs, validArch)
         IN  /\ todo' = todo \ { r }
             /\ repo' = r
             /\ tags' = repoTags[r]
             /\ rSplit' = split
             /\ arch' = res[1]
             /\ ok' = res[2]
             /\ IF res[2]
                THEN /\ isArch' = (res[1] # "")
                     /\ tagIdx' = 1
                     /\ tasks' = <<>>
                     /\ pc' = "go"
                ELSE UNCHANGED << isArch, tagIdx, tasks, pc >>
    /\ UNCHANGED << firstFail, envVars, exitCode, called, calls, stdout, allArchs, validArch,
                    invVars, m, g, digests, incs, updates, err >>

\* tag := tag; g.Go(...) for the next tag of the repository
Go ==
    /\ pc = "go"
    /\ tagIdx <= Len(tags)
    /\ tasks' = Append(tasks, NewTask(tags[tagIdx]))
    /\ tagIdx' = tagIdx + 1
    /\ UNCHANGED << firstFail, envVars, pc, exitCode, called, calls, stdout, allArchs, validArch,
                    invVars, todo, repo, rSplit, arch, ok, isArch, tags, m, g, digests, incs,
                    updates, err >>

\* an architecture image: registry.ParseImage and reg.Digest
Digest(i) ==
    /\ tasks[i].pc = "fetch"
    /\ isArch
    /\ calls' = calls \cup { << "Digest", Str(repo), tasks[i].tag >> }
    /\ \E fails \in Outcomes :
         IF fails
         THEN /\ g' = GoErr(g, "Digest " \o Image(tasks[i].tag) \o ": i/o")
              /\ firstFail' = IF firstFail = Nil
                               THEN "Digest " \o Image(tasks[i].tag) \o ": i/o"
                               ELSE firstFail
              /\ tasks' = [ tasks EXCEPT ![i].pc = "done" ]
         ELSE /\ tasks' = [ tasks EXCEPT ![i].pc = "Lock", ![i].dig = reg.digest[repo] ]
              /\ UNCHANGED << g, firstFail >>
    /\ UNCHANGED << envVars, pc, exitCode, called, stdout, allArchs, validArch,
                    invVars, todo, loopVars, m, digests, incs, updates, err >>

\* a top-level image: reg.ManifestList
ManifestList(i) ==
    /\ tasks[i].pc = "fetch"
    /\ ~isArch
    /\ calls' = calls \cup { << "ManifestList", Str(repo), tasks[i].tag >> }
    /\ \E fails \in Outcomes :
         IF fails
         THEN /\ g' = GoErr(g, "ManifestList " \o TopRepoTag(tasks[i].tag) \o ": i/o")
              /\ firstFail' = IF firstFail = Nil
                               THEN "ManifestList " \o TopRepoTag(tasks[i].tag) \o ": i/o"
                               ELSE firstFail
              /\ tasks' = [ tasks EXCEPT ![i].pc = "done" ]
         ELSE /\ tasks' = [ tasks EXCEPT ![i].pc = "Lock", ![i].ml = reg.manifests[repo] ]
              /\ UNCHANGED << g, firstFail >>
    /\ UNCHANGED << envVars, pc, exitCode, called, stdout, allArchs, validArch,
                    invVars, todo, loopVars, m, digests, incs, updates, err >>

\* a lock that is taken without waiting for its holder
LockNoWait(i) ==
    /\ tasks[i].pc = "Lock"
    /\ m' = i
    /\ tasks' = [ tasks EXCEPT ![i].pc = IF isArch THEN "Get" ELSE "Ensure" ]
    /\ UNCHANGED << firstFail, envVars, pc, exitCode, called, calls, stdout, allArchs, validArch,
                    invVars, todo, loopVars, g, digests, incs, updates, err >>

\* m.Lock()
Lock(i) ==
    /\ tasks[i].pc = "Lock"
    /\ m = 0
    /\ m' = i
    /\ tasks' = [ tasks EXCEPT ![i].pc = IF isArch THEN "Get" ELSE "Ensure" ]
    /\ UNCHANGED << firstFail, envVars, pc, exitCode, called, calls, stdout, allArchs, validArch,
                    invVars, todo, loopVars, g, digests, incs, updates, err >>

\* a read that takes the counts of the entry and leaves its architectures
ArchGetDropsArchs(i) ==
    /\ tasks[i].pc = "Get"
    /\ LET rt == ArchRepoTag(tasks[i].tag)
       IN  tasks' = [ tasks EXCEPT ![i].pc = "Append",
                        ![i].ee = [ ok |-> rt \in DOMAIN digests, digs |-> <<>>,
                                    archs |-> <<>> ] ]
    /\ UNCHANGED << firstFail, envVars, pc, exitCode, called, calls, stdout, allArchs,
                    validArch, invVars, todo, loopVars, m, g, digests, incs, updates, err >>

\* ee, ok := digests[repoTag], a fresh containerInfo when there is none;
\* ee.digs of an entry that exists is the map the entry holds
ArchGet(i) ==
    /\ tasks[i].pc = "Get"
    /\ LET rt == ArchRepoTag(tasks[i].tag)
       IN  tasks' = [ tasks EXCEPT ![i].pc = "Append",
                        ![i].ee = IF rt \in DOMAIN digests
                                  THEN [ ok |-> TRUE, digs |-> <<>>,
                                         archs |-> digests[rt].archs ]
                                  ELSE [ ok |-> FALSE, digs |-> <<>>, archs |-> <<>> ] ]
    /\ UNCHANGED << firstFail, envVars, pc, exitCode, called, calls, stdout, allArchs, validArch,
                    invVars, todo, loopVars, m, g, digests, incs, updates, err >>

\* ee.archs = append(ee.archs, arch)
ArchAppend(i) ==
    /\ tasks[i].pc = "Append"
    /\ tasks' = [ tasks EXCEPT ![i].pc = "Incr",
                               ![i].ee.archs = Append(tasks[i].ee.archs, arch) ]
    /\ UNCHANGED << firstFail, envVars, pc, exitCode, called, calls, stdout, allArchs, validArch,
                    invVars, todo, loopVars, m, g, digests, incs, updates, err >>

\* ee.digs[dig]++
ArchIncr(i) ==
    /\ tasks[i].pc = "Incr"
    /\ LET rt == ArchRepoTag(tasks[i].tag)
       IN  IF tasks[i].ee.ok
           THEN /\ digests' = [ digests EXCEPT ![rt].digs = MapAdd(@, tasks[i].dig, 1) ]
                /\ incs' = Counted(incs, rt)
                /\ tasks' = [ tasks EXCEPT ![i].pc = "Store" ]
           ELSE /\ tasks' = [ tasks EXCEPT ![i].pc = "Store",
                                ![i].ee.digs = MapAdd(@, tasks[i].dig, 1) ]
                /\ UNCHANGED << digests, incs >>
    /\ UNCHANGED << firstFail, envVars, pc, exitCode, called, calls, stdout, allArchs, validArch,
                    invVars, todo, loopVars, m, g, updates, err >>

\* digests[repoTag] = ee; the count made in a new entry's own map is stored with it
ArchStore(i) ==
    /\ tasks[i].pc = "Store"
    /\ LET rt == ArchRepoTag(tasks[i].tag)
       IN  /\ digests' = MapPut(digests, rt,
                           [ digs |-> IF tasks[i].ee.ok THEN digests[rt].digs
                                      ELSE tasks[i].ee.digs,
                             archs |-> tasks[i].ee.archs ])
           /\ incs' = IF tasks[i].ee.ok THEN incs ELSE Counted(incs, rt)
    /\ tasks' = [ tasks EXCEPT ![i].pc = "Unlock" ]
    /\ UNCHANGED << firstFail, envVars, pc, exitCode, called, calls, stdout, allArchs, validArch,
                    invVars, todo, loopVars, m, g, updates, err >>

\* a top-level task that stores a new containerInfo whatever the map holds
TopEnsureAlways(i) ==
    /\ tasks[i].pc = "Ensure"
    /\ digests' = MapPut(digests, TopRepoTag(tasks[i].tag), [ digs |-> <<>>, archs |-> <<>> ])
    /\ tasks' = [ tasks EXCEPT ![i].idx = 1,
                    ![i].pc = IF Len(tasks[i].ml) = 0 THEN "Unlock" ELSE "Dec" ]
    /\ UNCHANGED << firstFail, envVars, pc, exitCode, called, calls, stdout, allArchs,
                    validArch, invVars, todo, loopVars, m, g, incs, updates, err >>

\* if digests[repoTag].digs == nil, store a containerInfo with an empty map
TopEnsure(i) ==
    /\ tasks[i].pc = "Ensure"
    /\ LET rt == TopRepoTag(tasks[i].tag)
       IN  digests' = IF rt \in DOMAIN digests THEN digests
                      ELSE MapPut(digests, rt, [ digs |-> <<>>, archs |-> <<>> ])
    /\ tasks' = [ tasks EXCEPT ![i].idx = 1,
                    ![i].pc = IF Len(tasks[i].ml) = 0 THEN "Unlock" ELSE "Dec" ]
    /\ UNCHANGED << firstFail, envVars, pc, exitCode, called, calls, stdout, allArchs, validArch,
                    invVars, todo, loopVars, m, g, incs, updates, err >>

\* one round of the loop over ml.Manifests: digests[repoTag].digs[dig]--
TopDec(i) ==
    /\ tasks[i].pc = "Dec"
    /\ LET rt == TopRepoTag(tasks[i].tag)
           dig == tasks[i].ml[tasks[i].idx]
       IN  digests' = [ digests EXCEPT ![rt].digs = MapAdd(@, dig, -1) ]
    /\ tasks' = [ tasks EXCEPT ![i].idx = @ + 1,
                    ![i].pc = IF tasks[i].idx = Len(tasks[i].ml) THEN "Unlock" ELSE "Dec" ]
    /\ UNCHANGED << firstFail, envVars, pc, exitCode, called, calls, stdout, allArchs, validArch,
                    invVars, todo, loopVars, m, g, incs, updates, err >>

\* a return that leaves the mutex locked
UnlockKept(i) ==
    /\ tasks[i].pc = "Unlock"
    /\ tasks' = [ tasks EXCEPT ![i].pc = "done" ]
    /\ UNCHANGED << firstFail, envVars, pc, exitCode, called, calls, stdout, allArchs, validArch,
                    invVars, todo, loopVars, m, g, digests, incs, updates, err >>

\* m.Unlock(); return nil
Unlock(i) ==
    /\ tasks[i].pc = "Unlock"
    /\ m' = 0
    /\ tasks' = [ tasks EXCEPT ![i].pc = "done" ]
    /\ UNCHANGED << firstFail, envVars, pc, exitCode, called, calls, stdout, allArchs, validArch,
                    invVars, todo, loopVars, g, digests, incs, updates, err >>

\* a loop that moves on without joining the tasks of the repository
WaitNotJoined ==
    /\ pc = "go"
    /\ tagIdx > Len(tags)
    /\ IF g # Nil
       THEN Fatal(g)
       ELSE pc' = "range" /\ UNCHANGED << exitCode, err >>
    /\ UNCHANGED << firstFail, envVars, called, calls, stdout, allArchs, validArch,
                    invVars, updVars, updates >>

\* g.Wait() after the tags of one repository; an error ends getUpdates and run
Wait ==
    /\ pc = "go"
    /\ tagIdx > Len(tags)
    /\ AllDone(tasks)
    /\ IF g # Nil
       THEN Fatal(g)
       ELSE pc' = "range" /\ UNCHANGED << exitCode, err >>
    /\ UNCHANGED << firstFail, envVars, called, calls, stdout, allArchs, validArch,
                    invVars, updVars, updates >>

\* a scan that asks for every count to be non-zero
needsUpdateEvery(info) ==
    /\ DOMAIN info.digs # {}
    /\ \A d \in DOMAIN info.digs : info.digs[d] # 0

\* a scan that looks for surplus digests only
needsUpdatePositive(info) == \E d \in DOMAIN info.digs : info.digs[d] > 0

needsUpdate(info) == \E d \in DOMAIN info.digs : info.digs[d] # 0

Perms(S) ==
    { f \in [ 1..Cardinality(S) -> S ] : \A i, j \in DOMAIN f : f[i] = f[j] => i = j }

\* the loop over digests, in map order, and the return to run
Scan ==
    /\ pc = "range"
    /\ todo = {}
    /\ \E order \in Perms({ rt \in DOMAIN digests : needsUpdate(digests[rt]) }) :
         updates' = [ i \in DOMAIN order |->
                        [ repoTag |-> order[i], archs |-> digests[order[i]].archs ] ]
    /\ pc' = "run"
    /\ UNCHANGED << firstFail, envVars, exitCode, called, calls, stdout, allArchs, validArch,
                    invVars, updVars, err >>

\* ------------------------------------------------------------ pushUpdates
createCmd == << "docker", "manifest", "create", "--insecure", "--amend" >>
pushCmd == << "docker", "manifest", "push", "--insecure" >>

\* architecture paths built as domain/repoTag/arch
PushOneArchLast(u, domain) ==
    LET topLevel == domain \o "/" \o u.repoTag
        cCmd == Append(createCmd, topLevel)
                  \o [ k \in DOMAIN u.archs |-> domain \o "/" \o u.repoTag \o "/" \o u.archs[k] ]
        pCmd == Append(pushCmd, topLevel)
    IN  << Join(cCmd, " "), Join(pCmd, " ") >>

\* the two lines printed for one updateInfo
PushOne(u, domain) ==
    LET topLevel == domain \o "/" \o u.repoTag
        cCmd == Append(createCmd, topLevel)
                  \o [ k \in DOMAIN u.archs |-> domain \o "/" \o u.archs[k] \o "/" \o u.repoTag ]
        pCmd == Append(pushCmd, topLevel)
    IN  << Join(cCmd, " "), Join(pCmd, " ") >>

\* a create command that is built once and grows from record to record
RECURSIVE PushShared(_, _, _)
PushShared(updateInfo, domain, cCmd) ==
    IF updateInfo = <<>> THEN <<>>
    ELSE LET u == Head(updateInfo)
             topLevel == domain \o "/" \o u.repoTag
             c == Append(cCmd, topLevel)
                    \o [ k \in DOMAIN u.archs |-> domain \o "/" \o u.archs[k] \o "/" \o u.repoTag ]
         IN  << Join(c, " "), Join(Append(pushCmd, topLevel), " ") >>
               \o PushShared(Tail(updateInfo), domain, c)

pushUpdatesShared(updateInfo, domain) == PushShared(updateInfo, domain, createCmd)

RECURSIVE pushUpdates(_, _)
pushUpdates(updateInfo, domain) ==
    IF updateInfo = <<>> THEN <<>>
    ELSE PushOne(Head(updateInfo), domain) \o pushUpdates(Tail(updateInfo), domain)

\* ------------------------------------------------------------ run
\* nrUpdates == 0 returns; otherwise pushUpdates prints the plan
Run ==
    /\ pc = "run"
    /\ IF Len(updates) = 0
       THEN UNCHANGED << stdout, called >>
       ELSE /\ stdout' = stdout \o pushUpdates(updates, reg.Domain)
            /\ called' = called \cup { "pushUpdates" }
    /\ pc' = "exit"
    /\ exitCode' = 0
    /\ UNCHANGED << firstFail, envVars, calls, allArchs, validArch, invVars, updVars, updates, err >>

\* getUpdates called once more with the same arguments: fresh m, g and digests
Rerun ==
    /\ pc = "run"
    /\ runNo = 1
    /\ runNo' = 2
    /\ prev' = [ digests |-> digests, updates |-> Elems(updates) ]
    /\ pc' = "range"
    /\ todo' = DOMAIN repoTags
    /\ tasks' = <<>>
    /\ m' = 0
    /\ g' = Nil
    /\ digests' = <<>>
    /\ incs' = <<>>
    /\ updates' = <<>>
    /\ UNCHANGED << reg, faulty, flags, exitCode, called, calls, stdout, allArchs,
                    validArch, invVars, loopVars, err, firstFail >>

Next ==
    \/ Main
    \/ GetRegistry
    \/ Catalog
    \/ TagsGo
    \/ \E i \in DOMAIN tagTasks : TagsCall(i)
    \/ \E i \in DOMAIN tagTasks : TagsLock(i)
    \/ \E i \in DOMAIN tagTasks : TagsStore(i)
    \/ \E i \in DOMAIN tagTasks : TagsUnlock(i)
    \/ TagsWait
    \/ Range
    \/ Go
    \/ \E i \in DOMAIN tasks : Digest(i)
    \/ \E i \in DOMAIN tasks : ManifestList(i)
    \/ \E i \in DOMAIN tasks : Lock(i)
    \/ \E i \in DOMAIN tasks : ArchGet(i)
    \/ \E i \in DOMAIN tasks : ArchAppend(i)
    \/ \E i \in DOMAIN tasks : ArchIncr(i)
    \/ \E i \in DOMAIN tasks : ArchStore(i)
    \/ \E i \in DOMAIN tasks : TopEnsure(i)
    \/ \E i \in DOMAIN tasks : TopDec(i)
    \/ \E i \in DOMAIN tasks : Unlock(i)
    \/ Wait
    \/ Scan
    \/ Run

Spec == Init /\ [][Next]_vars

\* the program, started with -all and -a at their defaults, under a scheduler
\* that does not stop while a goroutine can take a step, every client call
\* returning (with a value or an error)
InitFair == Init /\ flags = << FlagAllDefault, FlagADefault >>
FairSpec == InitFair /\ [][Next]_vars /\ WF_vars(Next)

\* the program on a registry whose calls do not fail, with getUpdates run a
\* second time on the same registry
InitTwice == Start /\ faulty = FALSE
NextTwice == Next \/ Rerun
SpecTwice == InitTwice /\ [][NextTwice]_vars

\* pushUpdates on its own: run at the point where getUpdates has returned,
\* with any records and any domain
MaxRecords == 2
MaxArchs == 2
Domains == { Domain, "localhost:5000" }
UpdateInfos ==
    SeqsUpTo([ repoTag : { "rck:latest", "lib/app:v1" },
               archs : SeqsUpTo({ "amd64", "s390x" }, MaxArchs) ], MaxRecords)

InitPush ==
    /\ reg \in { [ Domain |-> d, catalog |-> <<>>, tags |-> <<>>, digest |-> <<>>,
                   manifests |-> <<>> ] : d \in Domains }
    /\ faulty = FALSE
    /\ flags = << FlagAllDefault, FlagADefault >>
    /\ pc = "run"
    /\ exitCode = -1
    /\ called = { "main", "getRegistry", "run", "getAllRepoTags", "getUpdates" }
    /\ calls = { << "Catalog", "", "" >> }
    /\ stdout = <<>>
    /\ allArchs = Split(flags[1], ",")
    /\ validArch = Split(flags[2], ",")
    /\ repos = <<>>
    /\ goIdx = 1
    /\ tagTasks = <<>>
    /\ mTags = 0
    /\ gTags = Nil
    /\ repoTags = <<>>
    /\ todo = {}
    /\ repo = <<>>
    /\ rSplit = <<>>
    /\ arch = ""
    /\ ok = FALSE
    /\ isArch = FALSE
    /\ tags = <<>>
    /\ tagIdx = 0
    /\ tasks = <<>>
    /\ m = 0
    /\ g = Nil
    /\ digests = <<>>
    /\ incs = <<>>
    /\ updates \in UpdateInfos
    /\ err = Nil
    /\ firstFail = Nil
    /\ runNo = 1
    /\ prev = [ digests |-> <<>>, updates |-> {} ]

NextPush == Run
SpecPush == InitPush /\ [][NextPush]_vars

\* ============================================================ properties
\* What the registry holds, read off the registry itself.
Member(x, q) == \E i \in DOMAIN q : q[i] = x

\* every image of the registry: << repository, tag >>
Images ==
    UNION { { << r, reg.tags[r][k] >> : k \in DOMAIN reg.tags[r] } : r \in Elems(reg.catalog) }

\* the first path segment names a known architecture / one that is processed
IsArchRepo(r) == Member(r[1], allArchs)
Processed(r) == IsArchRepo(r) /\ Member(r[1], validArch)
Excluded(r) == IsArchRepo(r) /\ ~Member(r[1], validArch)

\* the RepoTag an image belongs to: the path without its architecture, ":" tag
KeyOf(im) ==
    IF IsArchRepo(im[1]) THEN Str(SubSeq(im[1], 3, Len(im[1]))) \o ":" \o im[2]
    ELSE Str(im[1]) \o ":" \o im[2]

RepoTagsOfRegistry == { KeyOf(im) : im \in Images }

\* how often digest d is the digest of a processed architecture image of rt
ArchCount(rt, d) ==
    Cardinality({ im \in Images :
                    Processed(im[1]) /\ KeyOf(im) = rt /\ reg.digest[im[1]] = d })

\* how often digest d is declared by the top-level manifest list of rt
ListCount(rt, d) ==
    Cardinality({ e \in Images \X (1..(MaxManifests + 1)) :
                    /\ ~IsArchRepo(e[1][1])
                    /\ KeyOf(e[1]) = rt
                    /\ e[2] \in DOMAIN reg.manifests[e[1][1]]
                    /\ reg.manifests[e[1][1]][e[2]] = d })

\* the count the balance map holds, zero for what it does not hold
Balance(rt, d) == IF rt \in DOMAIN digests THEN MapGet(digests[rt].digs, d) ELSE 0

\* getUpdates has processed every repository without error
Reconciled ==
    /\ "getUpdates" \in called
    /\ pc \in { "range", "run", "exit" }
    /\ todo = {}
    /\ err = Nil

\* getUpdates has returned its records without error
Returned == "getUpdates" \in called /\ pc \in { "run", "exit" } /\ err = Nil

Reported == { updates[i].repoTag : i \in DOMAIN updates }

\* C1: when getUpdates returns without error, a RepoTag is among the
\* UpdateRecords exactly when the digests its top-level manifest list declares
\* and the digests of its processed architecture images differ as multisets.
C1_ReportedIffMultisetsDiffer ==
    Returned =>
        \A rt \in RepoTagsOfRegistry \cup Reported :
            (rt \in Reported) <=> (\E d \in Digests : ArchCount(rt, d) # ListCount(rt, d))

\* a returned run that reports a RepoTag whose list declares one digest twice
C1_Witness ==
    /\ Returned
    /\ \E rt \in RepoTagsOfRegistry :
         rt \in Reported /\ ArchCount(rt, "sha256:AAA") = 1 /\ ListCount(rt, "sha256:AAA") = 2
    /\ Len(reg.catalog) = 3

\* C2: once every repository is processed without error, the count stored
\* for a RepoTag and a digest is the number of processed architecture images
\* with that digest minus the number of entries of the manifest list with it.
C2_BalanceIsArchMinusList ==
    Reconciled =>
        \A rt \in RepoTagsOfRegistry \cup DOMAIN digests : \A d \in Digests :
            Balance(rt, d) = ArchCount(rt, d) - ListCount(rt, d)

\* two architecture images and a list of two entries, folded into one RepoTag
C2_Witness ==
    /\ Reconciled
    /\ \E rt \in DOMAIN digests :
         /\ ArchCount(rt, "sha256:AAA") = 2
         /\ ListCount(rt, "sha256:AAA") = 1
         /\ ListCount(rt, "sha256:BBB") = 1
         /\ Balance(rt, "sha256:AAA") = 1
         /\ Balance(rt, "sha256:BBB") = -1
    /\ Len(tags) = 2

\* how often digest d is the digest of any architecture image of rt
AllArchCount(rt, d) ==
    Cardinality({ im \in Images :
                    IsArchRepo(im[1]) /\ KeyOf(im) = rt /\ reg.digest[im[1]] = d })

\* every manifest list declares exactly the architecture images that exist
MatchingRegistry ==
    \A rt \in RepoTagsOfRegistry : \A d \in Digests : ListCount(rt, d) = AllArchCount(rt, d)

\* architecturesToProcess is a non-empty subset of allArchitectures
ValidWithinAll ==
    /\ validArch # <<>>
    /\ \A i \in DOMAIN validArch : Member(validArch[i], allArchs)

\* C3 as stated: a matching registry gives no UpdateRecord, whichever
\* non-empty subset of allArchitectures is processed.
C3_Original ==
    (Returned /\ MatchingRegistry /\ ValidWithinAll) => updates = <<>>

\* C3: a matching registry gives no UpdateRecord when architecturesToProcess
\* is a non-empty subset of allArchitectures that holds every architecture
\* with images in the registry.
C3_MatchingGivesNoUpdates ==
    ( /\ Returned
      /\ MatchingRegistry
      /\ ValidWithinAll
      /\ \A r \in Elems(reg.catalog) : IsArchRepo(r) => Processed(r) )
    => updates = <<>>

\* a matching registry of two architectures with different digests, returned
C3_Witness ==
    /\ Returned
    /\ MatchingRegistry
    /\ ValidWithinAll
    /\ Len(reg.catalog) = 3
    /\ Processed(RepoAmd) /\ Processed(RepoS390)
    /\ reg.digest[RepoS390] = "sha256:BBB"
    /\ updates = <<>>

\* rt has a processed architecture image whose digest no list declares
ArchUndeclared(rt) == \E d \in Digests : ArchCount(rt, d) > 0 /\ ListCount(rt, d) = 0

\* rt has a top-level image and no processed architecture image
TopOnly(rt) ==
    /\ \E im \in Images : ~IsArchRepo(im[1]) /\ KeyOf(im) = rt
    /\ \A d \in Digests : ArchCount(rt, d) = 0

InReportWithCount(rt) == rt \in Reported /\ \E d \in Digests : Balance(rt, d) # 0

\* C4 as stated: every architecture-only RepoTag and every top-level repo:tag
\* without architecture image is reported, whatever its manifest list holds.
C4_Original ==
    Returned =>
        \A rt \in RepoTagsOfRegistry :
            (ArchUndeclared(rt) \/ TopOnly(rt)) => InReportWithCount(rt)

\* C4: every architecture-only RepoTag, and every top-level repo:tag without
\* architecture image whose manifest list has at least one entry, is reported
\* with a non-zero count.
C4_UnmatchedAreReported ==
    Returned =>
        \A rt \in RepoTagsOfRegistry :
            ( \/ ArchUndeclared(rt)
              \/ TopOnly(rt) /\ \E d \in Digests : ListCount(rt, d) > 0 )
            => InReportWithCount(rt)

\* a top-level repo:tag alone in the registry, its list not empty, reported
C4_Witness ==
    /\ Returned
    /\ reg.catalog = << RepoTop >>
    /\ TopOnly("rck:latest")
    /\ ListCount("rck:latest", "sha256:BBB") = 1
    /\ InReportWithCount("rck:latest")

\* the registry of the README example, both architectures processed
ExampleRegistry ==
    /\ reg.catalog = << RepoTop, RepoAmd, RepoS390 >>
    /\ reg.tags[RepoTop] = << "latest" >>
    /\ reg.manifests[RepoTop] = << "sha256:AAA" >>
    /\ reg.digest[RepoAmd] = "sha256:AAA"
    /\ reg.digest[RepoS390] = "sha256:BBB"

ExamplePlans ==
    { << "docker manifest create --insecure --amend registry.io/rck:latest "
           \o "registry.io/amd64/rck:latest registry.io/s390x/rck:latest",
         "docker manifest push --insecure registry.io/rck:latest" >>,
      << "docker manifest create --insecure --amend registry.io/rck:latest "
           \o "registry.io/s390x/rck:latest registry.io/amd64/rck:latest",
         "docker manifest push --insecure registry.io/rck:latest" >> }

\* C5: on the example registry with amd64 and s390x processed, a run without
\* error ends with balance +1 for BBB and 0 for AAA, one UpdateRecord
\* ("rck:latest", amd64 and s390x in some order), and exactly the create line
\* and the push line of rck:latest on standard output.
C5_ExampleEndToEnd ==
    (ExampleRegistry /\ flags = << FlagAllDefault, FlagADefault >>) =>
        /\ Reconciled =>
             /\ Balance("rck:latest", "sha256:BBB") = 1
             /\ Balance("rck:latest", "sha256:AAA") = 0
        /\ Returned =>
             /\ Len(updates) = 1
             /\ updates[1].repoTag = "rck:latest"
             /\ updates[1].archs \in { << "amd64", "s390x" >>, << "s390x", "amd64" >> }
        /\ pc = "exit" /\ exitCode = 0 => stdout \in ExamplePlans

\* the example has run to its end, s390x iterated before amd64
C5_Witness ==
    /\ ExampleRegistry
    /\ flags = << FlagAllDefault, FlagADefault >>
    /\ pc = "exit"
    /\ exitCode = 0
    /\ updates = << [ repoTag |-> "rck:latest", archs |-> << "s390x", "amd64" >> ] >>
    /\ Len(stdout) = 2

\* the repository of the catalog a client call was issued for
CallsFor(r) == { c \in calls : c[1] \in { "Digest", "ManifestList" } /\ c[2] = Str(r) }

\* the processed architecture images of rt
ProcessedImages(rt) == { im \in Images : Processed(im[1]) /\ KeyOf(im) = rt }

\* C6: for a repository of a known architecture that is not processed no
\* digest or manifest list is fetched and no task is launched or runs, so
\* no count and no architecture is added on its account: the architectures
\* of a RepoTag are processed ones, one per processed image in the end; the
\* example with only amd64 processed gives no UpdateRecord.
C6_ExcludedIsUntouched ==
    /\ \A r \in Elems(reg.catalog) : Excluded(r) => CallsFor(r) = {}
    /\ (pc = "go" \/ \E i \in DOMAIN tasks : tasks[i].pc # "done") => ~Excluded(repo)
    /\ \A rt \in DOMAIN digests :
         \A k \in DOMAIN digests[rt].archs : Member(digests[rt].archs[k], validArch)
    /\ Reconciled =>
         \A rt \in DOMAIN digests :
            /\ Len(digests[rt].archs) = Cardinality(ProcessedImages(rt))
            /\ \A d \in Digests : Balance(rt, d) <= ArchCount(rt, d)
    /\ (ExampleRegistry /\ flags = << FlagAllDefault, << "amd64" >> >> /\ Returned)
         => updates = <<>>

\* the example with s390x left out has run to its end
C6_Witness ==
    /\ ExampleRegistry
    /\ flags = << FlagAllDefault, << "amd64" >> >>
    /\ Excluded(RepoS390)
    /\ pc = "exit"
    /\ exitCode = 0
    /\ CallsFor(RepoS390) = {}
    /\ CallsFor(RepoAmd) # {}
    /\ updates = <<>>

\* the classification the claim gives for a prefix and two lists
Classified(prefix, allA, validA) ==
    IF ~Member(prefix, allA) THEN << "", TRUE >>
    ELSE IF ~Member(prefix, validA) THEN << prefix, FALSE >>
    ELSE << prefix, TRUE >>

\* C7: processArch gives ("", true) for a prefix not in allArchs, (prefix,
\* false) for one in allArchs but not in validArch and (prefix, true) for one
\* in both: for every repository the loop classifies, and for the three
\* examples of the specification.
C7_ProcessArchClassifies ==
    /\ rSplit # <<>> =>
         << arch, ok >> = Classified(rSplit[1], allArchs, validArch)
    /\ processArch("arm64", << "amd64", "arm64" >>, << "amd64" >>) = << "arm64", FALSE >>
    /\ processArch("myimage", << "amd64", "arm64" >>, << "amd64" >>) = << "", TRUE >>
    /\ processArch("amd64", << "amd64", "arm64" >>, << "amd64", "arm64" >>) = << "amd64", TRUE >>

\* a prefix in validArch but not in allArchs, classified as top-level
C7_Witness ==
    /\ rSplit # <<>>
    /\ Member(rSplit[1], validArch)
    /\ ~Member(rSplit[1], allArchs)
    /\ arch = ""
    /\ ok

\* the count the first run left for rt and d
PrevBalance(rt, d) ==
    IF rt \in DOMAIN prev.digests THEN MapGet(prev.digests[rt].digs, d) ELSE 0

Abs(n) == IF n < 0 THEN -n ELSE n

RECURSIVE SumAbs(_, _)
SumAbs(f, S) ==
    IF S = {} THEN 0
    ELSE LET d == CHOOSE x \in S : TRUE
         IN  Abs(MapGet(f, d)) + SumAbs(f, S \ { d })

\* the second run of getUpdates has processed every repository without error
ReconciledTwice == runNo = 2 /\ Reconciled

\* C8: two runs over the same registry and architecture lists, each in its
\* own repository order and task interleaving, end with the same count for
\* every RepoTag and digest, the same sum of absolute counts and the same
\* inconsistent RepoTags.
C8_BalanceIsOrderIndependent ==
    ReconciledTwice =>
        /\ DOMAIN digests = DOMAIN prev.digests
        /\ \A rt \in DOMAIN digests :
             /\ \A d \in Digests : Balance(rt, d) = PrevBalance(rt, d)
             /\ SumAbs(digests[rt].digs, Digests) = SumAbs(prev.digests[rt].digs, Digests)
             /\ needsUpdate(digests[rt]) <=> needsUpdate(prev.digests[rt])

\* two runs that folded the architectures of rck:latest in different orders
C8_Witness ==
    /\ ReconciledTwice
    /\ "rck:latest" \in DOMAIN digests
    /\ digests["rck:latest"].archs = << "s390x", "amd64" >>
    /\ prev.digests["rck:latest"].archs = << "amd64", "s390x" >>
    /\ Balance("rck:latest", "sha256:BBB") = 1
    /\ Balance("rck:latest", "sha256:AAA") = -1

\* the second run of getUpdates has returned without error
ReturnedTwice == runNo = 2 /\ Returned

BagOf(q) == [ a \in Elems(q) |-> Cardinality({ k \in DOMAIN q : q[k] = a }) ]

\* C9 as stated: the two runs return the same set of records (RepoTag,
\* ContributingArchitectures list).
C9_Original ==
    ReturnedTwice => Elems(updates) = prev.updates

\* C9: the two runs return the same set of records when the
\* ContributingArchitectures of a record are compared as a multiset.
C9_SameRecordsUpToArchOrder ==
    ReturnedTwice =>
        { << updates[i].repoTag, BagOf(updates[i].archs) >> : i \in DOMAIN updates }
          = { << u.repoTag, BagOf(u.archs) >> : u \in prev.updates }

\* two runs that report rck:latest with its architectures in different orders
C9_Witness ==
    /\ ReturnedTwice
    /\ Len(updates) = 1
    /\ updates[1].repoTag = "rck:latest"
    /\ updates[1].archs = << "s390x", "amd64" >>
    /\ prev.updates = { [ repoTag |-> "rck:latest", archs |-> << "amd64", "s390x" >> ] }

\* the create and push lines of a record
RECURSIVE ArchPaths(_, _)
ArchPaths(rt, as) ==
    IF as = <<>> THEN ""
    ELSE " " \o reg.Domain \o "/" \o Head(as) \o "/" \o rt \o ArchPaths(rt, Tail(as))

PlanLines ==
    { "docker manifest push --insecure " \o reg.Domain \o "/" \o rt :
        rt \in RepoTagsOfRegistry \cup DOMAIN digests }
    \cup { "docker manifest create --insecure --amend " \o reg.Domain \o "/" \o rt
             \o ArchPaths(rt, as) :
           rt \in RepoTagsOfRegistry \cup DOMAIN digests,
           as \in SeqsUpTo({ r[1] : r \in Elems(reg.catalog) }, 2) }

\* C10: after a failed client call the program cannot end well: run returns
\* the first error recorded, getUpdates returns no record, pushUpdates is not
\* called and no plan line is printed; after a failure in the inventory
\* getUpdates is not called; after a failure in a repository no later
\* repository is iterated and no call is issued for one.
C10_FailureIsFatal ==
    /\ firstFail # Nil =>
         /\ pc # "run"
         /\ updates = <<>>
         /\ "pushUpdates" \notin called
         /\ pc = "exit" =>
              /\ exitCode = 1
              /\ err = firstFail
              /\ \A k \in DOMAIN stdout : stdout[k] \notin PlanLines
    /\ (firstFail # Nil /\ g = Nil) => "getUpdates" \notin called
    /\ g # Nil =>
         /\ pc \in { "go", "exit" }
         /\ \A r \in todo : CallsFor(r) = {}
    /\ (pc = "exit" /\ err # Nil) => (AllDone(tasks) /\ AllDone(tagTasks))

\* a digest fetch failed after one repository was folded in and before the
\* last one was iterated; both tasks of the repository failed
C10_Witness ==
    /\ pc = "exit"
    /\ exitCode = 1
    /\ g # Nil
    /\ err = firstFail
    /\ todo # {}
    /\ digests # <<>>
    /\ Len(tasks) = 2
    /\ \A i \in DOMAIN tasks : tasks[i].pc = "done" /\ tasks[i].dig = ""
    /\ isArch

\* C11: everything on standard output is the plan: one create line and one
\* push line per returned record, and nothing when the run fails or when no
\* record is returned.
C11_StdoutIsPlanOnly ==
    /\ \A k \in DOMAIN stdout : stdout[k] \in PlanLines
    /\ pc = "exit" =>
         /\ Len(stdout) = 2 * Len(updates)
         /\ (exitCode # 0 \/ Len(updates) = 0) => stdout = <<>>

\* the architecture image paths of a record, each led by a blank
RECURSIVE ArchPathsOf(_, _, _)
ArchPathsOf(d, rt, as) ==
    IF as = <<>> THEN ""
    ELSE " " \o d \o "/" \o Head(as) \o "/" \o rt \o ArchPathsOf(d, rt, Tail(as))

\* C12: for every sequence of records and every domain pushUpdates emits, per
\* record and in input order, the create line (the create command, then
\* domain/repoTag, then domain/arch/repoTag per element of the record's list,
\* in list order, duplicates kept, none for an empty list) and right after it
\* the push line (the push command and domain/repoTag only); no line holds a
\* path of another record; and this is what run writes to standard output.
C12_PushUpdatesEmitsPlan ==
    LET out == pushUpdates(updates, reg.Domain)
    IN  /\ Len(out) = 2 * Len(updates)
        /\ \A k \in DOMAIN updates :
             LET rt == updates[k].repoTag
             IN  /\ out[2 * k - 1] =
                      "docker manifest create --insecure --amend " \o reg.Domain \o "/" \o rt
                        \o ArchPathsOf(reg.Domain, rt, updates[k].archs)
                 /\ out[2 * k] =
                      "docker manifest push --insecure " \o reg.Domain \o "/" \o rt
        /\ (pc = "exit" /\ "pushUpdates" \in called /\ firstFail = Nil) => stdout = out

\* two records were printed for a domain other than the README's: the first
\* names one architecture twice, the second has no architecture
C12_Witness ==
    /\ pc = "exit"
    /\ "pushUpdates" \in called
    /\ reg.Domain # Domain
    /\ Len(updates) = 2
    /\ updates[1].archs = << "amd64", "amd64" >>
    /\ updates[2].archs = <<>>
    /\ updates[1].repoTag # updates[2].repoTag
    /\ Len(stdout) = 4

\* C13: with an empty -all or -a value the program ends in main with a fatal
\* error and a non-zero exit status: getRegistry is not entered and no client
\* call is issued.
C13_EmptyListIsFatal ==
    (flags[1] = <<>> \/ flags[2] = <<>>) =>
        /\ pc \in { "main", "exit" }
        /\ "getRegistry" \notin called
        /\ calls = {}
        /\ pc = "exit" => exitCode = 1

\* task i of getUpdates is between m.Lock() and m.Unlock()
InLock(i) ==
    tasks[i].pc \in { "Get", "Append", "Incr", "Store", "Ensure", "Dec", "Unlock" }

\* C14: at most one task of getUpdates is between m.Lock() and m.Unlock(),
\* and it is the holder of m from its read of the entry to its last write;
\* the copy an architecture task holds is the copy of the entry as it still
\* is in the map (nobody stored in between); and whenever the mutex is free
\* or its holder is about to read, no entry is half updated: it has one
\* architecture per increment made.
C14_OneCriticalSection ==
    /\ \A i, j \in DOMAIN tasks : (InLock(i) /\ InLock(j)) => i = j
    /\ m # 0 => m \in DOMAIN tasks
    /\ \A i \in DOMAIN tasks : InLock(i) <=> m = i
    /\ \A i \in DOMAIN tasks :
         tasks[i].pc \in { "Append", "Incr", "Store" } =>
           LET rt == ArchRepoTag(tasks[i].tag)
               ee == tasks[i].ee
           IN  /\ ee.ok <=> rt \in DOMAIN digests
               /\ ee.ok =>
                    digests[rt].archs =
                      IF tasks[i].pc = "Append" THEN ee.archs
                      ELSE SubSeq(ee.archs, 1, Len(ee.archs) - 1)
    /\ (m = 0 \/ (m \in DOMAIN tasks /\ tasks[m].pc \in { "Get", "Ensure" })) =>
         /\ DOMAIN incs \subseteq DOMAIN digests
         /\ \A rt \in DOMAIN digests : Len(digests[rt].archs) = MapGet(incs, rt)

\* a task has incremented a count of an entry another repository created and
\* has not yet stored its copy, while the other task of its repository waits
\* for the mutex
C14_Witness ==
    /\ Len(tasks) = 2
    /\ m = 1
    /\ tasks[1].pc = "Store"
    /\ tasks[1].ee.ok
    /\ Len(tasks[1].ee.archs) = 2
    /\ tasks[2].pc = "Lock"

\* the tasks of getUpdates that have not returned
Live == { i \in DOMAIN tasks : tasks[i].pc # "done" }

\* C15: in every state of the reconciliation all tasks that still run were
\* started for one repository, the one the loop is at; the loop is between
\* two repositories only when every task has returned; and no more tasks run
\* than that repository has tags.
C15_OneRepositoryAtATime ==
    /\ \A i \in Live : tasks[i].launched.repo = repo
    /\ \A i, j \in DOMAIN tasks : tasks[i].launched.repo = tasks[j].launched.repo
    /\ pc \in { "range", "run", "exit" } => Live = {}
    /\ Live # {} =>
         /\ pc = "go"
         /\ repo \in DOMAIN repoTags
         /\ Cardinality(Live) <= Len(repoTags[repo])

\* both tasks of an architecture repository run at once, after the tasks of
\* an earlier repository have been folded in
C15_Witness ==
    /\ Cardinality(Live) = 2
    /\ digests # <<>>
    /\ isArch
    /\ tasks[1].pc = "Lock"
    /\ tasks[2].pc = "fetch"

\* C16 as stated: once a task of a phase has failed, no step of that phase
\* issues a client call or changes the shared map of the phase, and the error
\* the phase returns is the error of the first task that failed.
C16_Original ==
    [][ /\ gTags # Nil => (calls' = calls /\ repoTags' = repoTags)
        /\ g # Nil => (calls' = calls /\ digests' = digests)
        /\ (pc' = "exit" /\ (g' # Nil \/ gTags' # Nil)) => err' = firstFail' ]_vars

\* C16, amended: a phase returns the error of the first task that failed,
\* and it returns it after every task of the phase (every repository of the
\* inventory, every tag of the repository the reconciliation is at) has been
\* started and has returned; what a failure does stop is the work after the
\* join: no task is started for a later repository, and getUpdates is not
\* called after a failed inventory.
C16_JoinReturnsFirstError ==
    /\ gTags # Nil =>
         /\ gTags = firstFail
         /\ pc \in { "tagsGo", "exit" }
         /\ "getUpdates" \notin called
         /\ pc = "exit" => (err = gTags /\ Len(tagTasks) = Len(repos) /\ AllDone(tagTasks))
    /\ g # Nil =>
         /\ g = firstFail
         /\ pc \in { "go", "exit" }
         /\ \A r \in todo : CallsFor(r) = {}
         /\ pc = "exit" => (err = g /\ Len(tasks) = Len(tags) /\ AllDone(tasks))
    /\ (pc = "exit" /\ firstFail # Nil) => err = firstFail

\* the first task of an architecture repository has failed and the second
\* one, started for the next tag, has fetched its digest and is about to
\* store its entry
C16_Witness ==
    /\ g # Nil
    /\ pc = "go"
    /\ isArch
    /\ Len(tasks) = 2
    /\ tasks[1].pc = "done"
    /\ tasks[1].dig = ""
    /\ tasks[2].dig # ""
    /\ tasks[2].pc = "Store"

\* the architecture list stored for a RepoTag, empty when it has no entry
ArchsOf(rt) == IF rt \in DOMAIN digests THEN digests[rt].archs ELSE <<>>

\* an architecture task has incremented a stored count of rt and not yet
\* stored its copy of the entry (between main.go:147 and 148)
Updating(rt) ==
    \E i \in DOMAIN tasks :
        /\ tasks[i].pc = "Store"
        /\ tasks[i].ee.ok
        /\ ArchRepoTag(tasks[i].tag) = rt

\* C17 as stated: in every reachable state the list of every RepoTag has one
\* element per increment made to its counts, each an architecture of both
\* flag lists.
C17_Original ==
    \A rt \in DOMAIN digests \cup DOMAIN incs :
        /\ Len(ArchsOf(rt)) = MapGet(incs, rt)
        /\ \A k \in DOMAIN ArchsOf(rt) :
             Member(ArchsOf(rt)[k], allArchs) /\ Member(ArchsOf(rt)[k], validArch)

\* C17, amended: the same in every reachable state but for the RepoTag whose
\* entry the holder of the mutex is in the middle of updating, where the
\* stored list is one element short until the holder's copy is stored; the
\* tasks of a top-level repository leave the list as it is, whether they run
\* before or after the architecture tasks.
C17_ArchsMatchIncrements ==
    \A rt \in DOMAIN digests \cup DOMAIN incs :
        /\ ~Updating(rt) => Len(ArchsOf(rt)) = MapGet(incs, rt)
        /\ Updating(rt) =>
             /\ Len(ArchsOf(rt)) + 1 = MapGet(incs, rt)
             /\ m # 0
             /\ Len(tasks[m].ee.archs) = MapGet(incs, rt)
        /\ \A k \in DOMAIN ArchsOf(rt) :
             Member(ArchsOf(rt)[k], allArchs) /\ Member(ArchsOf(rt)[k], validArch)

\* the task of the top-level repository has made its decrements on an entry
\* that two architecture repositories had filled before, and another entry
\* was created by a top-level task and filled by an architecture task later
C17_Witness ==
    /\ ~isArch
    /\ m = 0
    /\ Len(tasks) = 2
    /\ tasks[1].pc = "done"
    /\ Len(tasks[1].ml) = 2
    /\ tasks[2].pc = "fetch"
    /\ "rck:latest" \in DOMAIN digests
    /\ Len(digests["rck:latest"].archs) = 2
    /\ MapGet(incs, "rck:latest") = 2

\* C18: when the catalog listing and every tag listing succeed,
\* getAllRepoTags returns a map whose keys are exactly the repositories of
\* the catalog, each with the tags the tag listing returned for it, and it
\* returns after one task per repository has been started and all of them
\* have returned; at no time does the map hold tags under another
\* repository's name.
C18_InventoryIsComplete ==
    /\ \A r \in DOMAIN repoTags : r \in Elems(reg.catalog) /\ repoTags[r] = reg.tags[r]
    /\ "getUpdates" \in called =>
         /\ DOMAIN repoTags = Elems(reg.catalog)
         /\ Len(tagTasks) = Len(reg.catalog)
         /\ AllDone(tagTasks)
         /\ gTags = Nil
    /\ (pc = "exit" /\ gTags = Nil /\ Len(tagTasks) = Len(reg.catalog) /\ repos # <<>>) =>
         "getUpdates" \in called

\* the inventory of a catalog of three repositories has returned, and two of
\* the repositories have different tag lists
C18_Witness ==
    /\ pc = "range"
    /\ todo = DOMAIN repoTags
    /\ "getUpdates" \in called
    /\ Len(reg.catalog) = 3
    /\ repoTags[RepoAmd] = << "latest", "v1" >>
    /\ repoTags[RepoS390] = << "latest" >>

\* C19: every task that still runs finds in repo, rSplit, arch and isArch
\* what they held when it was started, and has the tag of its own round of
\* the loop, which no other task has; so every Digest and ManifestList call
\* names an image of the registry (the repository and one of its own tags)
\* and is of the kind the repository asks for, what a task has fetched is the
\* content of its own repository, the entry it writes is the RepoTag of its
\* own image, and every architecture in a list is the architecture of a
\* processed image of that RepoTag (calls and lists only grow, so these two
\* are looked at whenever no task runs).
C19_TasksUseTheirOwnVariables ==
    /\ \A i \in Live :
         /\ tasks[i].launched =
              [ repo |-> repo, rSplit |-> rSplit, arch |-> arch, isArch |-> isArch ]
         /\ tasks[i].tag = tags[i]
    /\ \A i, j \in DOMAIN tasks : i # j => tasks[i].tag # tasks[j].tag
    /\ \A i \in DOMAIN tasks :
         LET r == tasks[i].launched.repo
         IN  /\ tasks[i].tag = repoTags[r][i]
             /\ tasks[i].dig \in { "", reg.digest[r] }
             /\ tasks[i].ml \in { <<>>, reg.manifests[r] }
             /\ tasks[i].pc \in { "Unlock", "done" } /\ tasks[i].dig # ""
                  => KeyOf(<< r, tasks[i].tag >>) \in DOMAIN digests
    /\ Live = {} =>
         /\ \A c \in calls :
              c[1] \in { "Digest", "ManifestList" } =>
                \E r \in Elems(reg.catalog) :
                    /\ Str(r) = c[2]
                    /\ Member(c[3], reg.tags[r])
                    /\ ~Excluded(r)
                    /\ c[1] = "Digest" <=> Processed(r)
         /\ \A rt \in DOMAIN digests :
              \A k \in DOMAIN digests[rt].archs :
                  \E im \in ProcessedImages(rt) : im[1][1] = digests[rt].archs[k]

\* the s390x repository, which has one tag, was folded in; now the first task
\* of the amd64 repository is about to store its entry while the second one,
\* for the tag the s390x repository does not have, has not fetched yet
C19_Witness ==
    /\ repo = RepoAmd
    /\ Len(tasks) = 2
    /\ tasks[1].pc = "Store"
    /\ tasks[1].ee.archs = << "s390x", "amd64" >>
    /\ tasks[2].pc = "fetch"
    /\ tasks[2].tag = "v1"
    /\ "rck:v1" \notin DOMAIN digests

\* C20: with every client call returning and a scheduler that lets a
\* goroutine that can step do so, run always ends: the program reaches its
\* exit with both mutexes free and every task returned; so no state is
\* reachable in which the tasks that remain are all blocked, both g.Wait
\* calls return, and, the exit being final, a mutex that is held at any time
\* is released later.
C20_RunTerminates ==
    <>(pc = "exit" /\ m = 0 /\ mTags = 0 /\ AllDone(tasks) /\ AllDone(tagTasks))

\* the second task of a top-level repository waits for the mutex, which the
\* first one holds in the middle of its decrements
C20_Witness ==
    /\ ~isArch
    /\ Len(tasks) = 2
    /\ m = 1
    /\ tasks[1].pc = "Dec"
    /\ tasks[1].idx = 2
    /\ tasks[2].pc = "Lock"

====
